---- MODULE Spec2Model ----
(***************************************************************************)
(* A model of SimplePerformanceTest (src/performanceTest.ts): the request  *)
(* prober, the report generator, the load driver, the monitor and the      *)
(* fixed-count drivers, each under a specification of its own.             *)
(*                                                                         *)
(* Time is the wall clock in milliseconds (Date.now() and                  *)
(* performance.now() read the same clock here).  Averages and rates are    *)
(* exact fractions [num, den].                                             *)
(***************************************************************************)
EXTENDS Integers, Sequences, FiniteSets, TLC

VARIABLES
  results,      \* this.results
  now,          \* the wall clock, ms
  probeIn,      \* the prober's call under test: arguments and what the network did
  probeOut,     \* what that call settled to
  reportOut,    \* what generateReport() settled to
  loadPc,       \* runLoadTest: "idle", "running" (awaiting Promise.all), "returned", "threw"
  endTime,      \* runLoadTest's endTime
  users,        \* the simulateUser calls, by userId: where each stands
  errLog,       \* the userIds console.error has logged, in order
  probed,       \* history: the samples the load driver's probes returned, in completion order
  monitor,      \* startRealTimeMonitoring: where monitoringLoop stands, and its locals
  monitoringResults,  \* startRealTimeMonitoring's monitoringResults
  printed,      \* the reports displayReport has printed, in order
  exitCode,     \* the code the process ended with, -1 while it runs
  runs,         \* the invocations of the fixed-count drivers on this instance
  selection,    \* the weighted selection under test: catalog, draw and what was returned
  recommendation,  \* the generateRecommendations call under test: arguments and result
  cli,          \* main: where it stands, and its arguments
  exported,     \* the reports exportResults has written to a file, in order
  errOut        \* the error messages printed, by main's catch or by the runtime, in order

coreVars == <<results, now>>
probeVars == <<probeIn, probeOut>>
reportVars == <<reportOut>>
loadVars == <<loadPc, endTime, users, errLog, probed>>
monVars == <<monitor, monitoringResults, printed, exitCode>>
runVars == <<runs>>
pureVars == <<selection, recommendation>>
cliVars == <<cli, exported>>
vars == <<results, now, probeIn, probeOut, reportOut, loadPc, endTime, users, errLog,
          probed, monitor, monitoringResults, printed, exitCode, runs, selection,
          recommendation, cli, exported, errOut>>

----------------------------------------------------------------------------
(* Bounds of the model *)

\* the longest freely chosen Result Set handed to generateReport
MaxLen == 3
\* the length of a block of identical fast samples, and the longest freely
\* chosen Result Set that such a block may follow
BulkLen == 20
BulkBase == 2
\* the largest clock reading of a prober call, in ticks
MaxProbeTicks == 2
\* load driver: the most simulated users, and the most probes one run dispatches
MaxUsers == 2
MaxProbes == 7
\* monitor: the last clock reading, in ticks of 5 s
MaxMonTicks == 2
\* fixed-count drivers: the largest request count of a run
MaxRequests == 2
\* the progress line: the largest request count of the run under test
MaxProgressRequests == 21

----------------------------------------------------------------------------
(* Helpers *)

RECURSIVE SumSeq(_)
SumSeq(s) == IF s = <<>> THEN 0 ELSE Head(s) + SumSeq(Tail(s))

\* Array.prototype.filter over a sequence, for a set of kept elements
RECURSIVE SelectIn(_, _)
SelectIn(s, keep) ==
  IF s = <<>> THEN <<>>
  ELSE IF Head(s) \in keep THEN <<Head(s)>> \o SelectIn(Tail(s), keep)
       ELSE SelectIn(Tail(s), keep)

RECURSIVE Insert(_, _)
Insert(x, s) ==
  IF s = <<>> THEN <<x>>
  ELSE IF x < Head(s) THEN <<x>> \o s
       ELSE <<Head(s)>> \o Insert(x, Tail(s))

\* a sort that leaves the array as it is
SortAsc_NoSort(s) == s

\* Array.prototype.sort((a, b) => a - b)
RECURSIVE SortAsc(_)
SortAsc(s) == IF s = <<>> THEN <<>> ELSE Insert(Head(s), SortAsc(Tail(s)))

Range(s) == { s[i] : i \in 1..Len(s) }

MinOf(s) == CHOOSE x \in Range(s) : \A y \in Range(s) : x <= y
MaxOf(s) == CHOOSE x \in Range(s) : \A y \in Range(s) : x >= y

RECURSIVE Repeat(_, _)
Repeat(x, k) == IF k = 0 THEN <<>> ELSE <<x>> \o Repeat(x, k - 1)

SeqsUpTo(S, n) == UNION { [1..k -> S] : k \in 0..n }

----------------------------------------------------------------------------
(* Request prober: testSingleRequest *)

PerformanceMetric(endpoint, method, responseTime, statusCode, contentLength, timestamp) ==
  [endpoint |-> endpoint, method |-> method, responseTime |-> responseTime,
   statusCode |-> statusCode, contentLength |-> contentLength,
   timestamp |-> timestamp]

\* A call of testSingleRequest, given what the network did: the fetch promise
\* settles at fetchAt (resolved with a status, or rejected), the body promise
\* at textAt (resolved with a length, or rejected).  Both awaits sit in one
\* try block; the catch block returns the sentinel sample.
ProbeThrows == [kind |-> "throw"]

\* the prober with the body read outside the try block
testSingleRequest_TextOutsideTry(endpoint, method, startTime, fetchOk, status, fetchAt, textOk, length, textAt) ==
  IF ~fetchOk
    THEN [kind |-> "sample",
          sample |-> PerformanceMetric(endpoint, method, fetchAt - startTime, 0, 0, fetchAt)]
  ELSE IF ~textOk
    THEN ProbeThrows
  ELSE [kind |-> "sample",
        sample |-> PerformanceMetric(endpoint, method, fetchAt - startTime, status, length, textAt)]

testSingleRequest(endpoint, method, startTime, fetchOk, status, fetchAt, textOk, length, textAt) ==
  IF ~fetchOk
    THEN [kind |-> "sample",
          sample |-> PerformanceMetric(endpoint, method, fetchAt - startTime, 0, 0, fetchAt)]
  ELSE IF ~textOk
    THEN [kind |-> "sample",
          sample |-> PerformanceMetric(endpoint, method, textAt - startTime, 0, 0, textAt)]
  ELSE [kind |-> "sample",
        sample |-> PerformanceMetric(endpoint, method, fetchAt - startTime, status, length, textAt)]

----------------------------------------------------------------------------
(* Report generator: generateReport, generateRecommendations *)

\* the success test with its upper limit included
IsSuccess_Through400(r) == r.statusCode >= 200 /\ r.statusCode <= 400

IsSuccess(r) == r.statusCode >= 200 /\ r.statusCode < 400

Fraction(n, d) == [num |-> n, den |-> d]
\* a fraction compared with an integer, and scaled by one
FracLT(f, k) == f.num < k * f.den
FracGE(f, k) == f.num >= k * f.den
FracGT(f, k) == f.num > k * f.den

\* a share left as a fraction of one
Percent_Unscaled(n, d) == Fraction(n, d)

\* (n / d) * 100
Percent(n, d) == Fraction(n * 100, d)

\* the textbook nearest rank, Math.ceil(length * p) - 1
FloorIndex_NearestRank(length, pct) == ((length * pct + 99) \div 100) - 1

\* Math.floor(length * p) for p = pct / 100
FloorIndex(length, pct) == (length * pct) \div 100

\* arr[Math.floor(arr.length * p)] || 0, arr 0-based
PercentileAt(arr, pct) ==
  LET i == FloorIndex(Len(arr), pct)
  IN IF i + 1 \in 1..Len(arr) THEN arr[i + 1] ELSE 0

NoResultsError == "No test results available"
NoSuccessError == "No successful requests for analysis"

MeanMessage(avg) ==
  IF FracLT(avg, 50) THEN "EXCELLENT: Average response time under 50ms - world-class performance!"
  ELSE IF FracLT(avg, 100) THEN "GOOD: Average response time under 100ms - great user experience"
  ELSE IF FracLT(avg, 200) THEN "FAIR: Consider optimizing database queries and caching"
  ELSE "NEEDS IMPROVEMENT: Response times over 200ms may impact user experience"

P95Message(p95) ==
  IF p95 < 100 THEN "95% of requests served under 100ms - consistent performance"
  ELSE IF p95 < 200 THEN "95th percentile under 200ms - good consistency"
  ELSE "High P95 response time suggests performance bottlenecks"

\* the ladder read in percent: the rate compared with 99.9, 99 and 95
SuccessMessage_InPercent(rate) ==
  IF 10 * rate.num >= 999 * rate.den THEN "OUTSTANDING: 99.9%+ success rate - extremely reliable"
  ELSE IF rate.num >= 99 * rate.den THEN "EXCELLENT: 99%+ success rate - very reliable"
  ELSE IF rate.num >= 95 * rate.den THEN "GOOD: 95%+ success rate - monitor error patterns"
  ELSE "INVESTIGATE: Success rate below 95% - check error logs"

\* successRate is the fraction successful / total, compared with 0.999, 0.99, 0.95
SuccessMessage(rate) ==
  IF 1000 * rate.num >= 999 * rate.den THEN "OUTSTANDING: 99.9%+ success rate - extremely reliable"
  ELSE IF 100 * rate.num >= 99 * rate.den THEN "EXCELLENT: 99%+ success rate - very reliable"
  ELSE IF 100 * rate.num >= 95 * rate.den THEN "GOOD: 95%+ success rate - monitor error patterns"
  ELSE "INVESTIGATE: Success rate below 95% - check error logs"

BonusMessages ==
  << "CAMBRIDGE VALIDATION: Local-first architecture demonstrates superior performance",
     "COMPETITIVE ADVANTAGE: 5-20x faster than typical cloud solutions" >>

generateRecommendations(responseTimes, successRate) ==
  LET avgResponseTime == Fraction(SumSeq(responseTimes), Len(responseTimes))
      p95ResponseTime == PercentileAt(responseTimes, 95)
  IN << MeanMessage(avgResponseTime), P95Message(p95ResponseTime),
        SuccessMessage(successRate) >>
     \o (IF FracLT(avgResponseTime, 100) /\ 100 * successRate.num > 99 * successRate.den
         THEN BonusMessages ELSE <<>>)

\* no filter: every sample kept
Successful_Unfiltered(rs) == rs

\* results.filter(r => r.statusCode >= 200 && r.statusCode < 400)
Successful(rs) == SelectIn(rs, { r \in Range(rs) : IsSuccess(r) })

RECURSIVE MapTimes(_)
MapTimes(s) == IF s = <<>> THEN <<>> ELSE <<Head(s).responseTime>> \o MapTimes(Tail(s))

\* a group keyed by endpoint and method: the GET samples of the endpoint only
EndpointStats_GetOnly(rs, endpoint) ==
  LET group == SelectIn(rs, { r \in Range(rs) : r.endpoint = endpoint /\ r.method = "GET" })
  IN [requests |-> Len(group),
      avgResponseTime |-> Fraction(SumSeq(MapTimes(group)), Len(group)),
      p95ResponseTime |-> PercentileAt(SortAsc(MapTimes(group)), 95),
      successRate |-> Fraction(Len(Successful(group)) * 100, Len(group))]

\* one group of the endpoint breakdown: all samples of the Result Set with this endpoint
EndpointStats(rs, endpoint) ==
  LET group == SelectIn(rs, { r \in Range(rs) : r.endpoint = endpoint })
      times == SortAsc(MapTimes(group))
      successCount == Len(Successful(group))
  IN [requests |-> Len(group),
      avgResponseTime |-> Fraction(SumSeq(times), Len(times)),
      p95ResponseTime |-> PercentileAt(times, 95),
      successRate |-> Fraction(successCount * 100, Len(group))]

generateReport(rs) ==
  IF Len(rs) = 0 THEN [kind |-> "error", message |-> NoResultsError]
  ELSE
    LET successfulRequests == Successful(rs)
        responseTimes == SortAsc(MapTimes(successfulRequests))
    IN IF Len(responseTimes) = 0 THEN [kind |-> "error", message |-> NoSuccessError]
       ELSE
         LET totalRequests == Len(rs)
             successRate == Fraction(Len(successfulRequests), totalRequests)
         IN [kind |-> "report",
             summary |->
               [totalRequests |-> totalRequests,
                averageResponseTime |-> Fraction(SumSeq(responseTimes), Len(responseTimes)),
                p50ResponseTime |-> PercentileAt(responseTimes, 50),
                p95ResponseTime |-> PercentileAt(responseTimes, 95),
                p99ResponseTime |-> PercentileAt(responseTimes, 99),
                minResponseTime |-> MinOf(responseTimes),
                maxResponseTime |-> MaxOf(responseTimes),
                successRate |-> Percent(successRate.num, successRate.den),
                errorRate |-> Percent(totalRequests - Len(successfulRequests),
                                      totalRequests)],
             endpointBreakdown |->
               [e \in { rs[i].endpoint : i \in 1..Len(rs) } |-> EndpointStats(rs, e)],
             timeSeriesData |-> rs,
             recommendations |-> generateRecommendations(responseTimes, successRate)]

NoReport == [kind |-> "none"]
NoProbe == [kind |-> "none"]

----------------------------------------------------------------------------
(* Endpoint catalogs *)

Endpoint(path, method, weight) == [path |-> path, method |-> method, weight |-> weight]

getTestEndpoints ==
  << Endpoint("/", "GET", 20),
     Endpoint("/api/analytics", "GET", 15),
     Endpoint("/api/blogs", "GET", 15),
     Endpoint("/api/projects", "GET", 15),
     Endpoint("/api/settings", "GET", 15),
     Endpoint("/api/roadmap", "GET", 10),
     Endpoint("/api/system", "GET", 3),
     Endpoint("/api/appointments", "GET", 6),
     Endpoint("/api/contact", "GET", 4),
     Endpoint("/health", "GET", 10) >>

cambridgeEndpoints ==
  << Endpoint("/", "GET", 20),
     Endpoint("/api/analytics", "GET", 15),
     Endpoint("/api/blogs", "GET", 15),
     Endpoint("/api/projects", "GET", 15),
     Endpoint("/api/roadmap", "GET", 10),
     Endpoint("/health", "GET", 10) >>

----------------------------------------------------------------------------
(* The prober under test: one call of testSingleRequest per step, for every *)
(* endpoint, method and behaviour of the network.                            *)

ProbeEndpoints == {"/", "/health"}
ProbeMethods == {"GET", "POST"}
HttpStatuses == {200, 301, 404, 500}
BodyLengths == {0, 7}
ProbeTimes == { 1000 * k : k \in 0..MaxProbeTicks }

ProbeIdle == probeIn = NoProbe /\ probeOut = NoProbe

LoadIdle ==
  /\ loadPc = "idle"
  /\ endTime = 0
  /\ users = [w \in {} |-> 0]
  /\ errLog = <<>>
  /\ probed = <<>>

MonitorOff ==
  [pc |-> "off", intervalSeconds |-> 0, startTime |-> 0, probeStart |-> 0, wakeAt |-> 0,
   endpoint |-> "", method |-> "",
   avgResponseTime |-> Fraction(0, 1), successRate |-> Fraction(0, 1)]

MonIdle ==
  /\ monitor = MonitorOff
  /\ monitoringResults = <<>>
  /\ printed = <<>>
  /\ exitCode = -1

RunIds == {1, 2}

RunNotStarted ==
  [pc |-> "new", kind |-> "", requests |-> 0, i |-> 0, endpoint |-> "", method |-> "",
   progress |-> <<>>, probed |-> <<>>, out |-> NoReport]

RunIdle == runs = [r \in RunIds |-> RunNotStarted]

NoCall == [kind |-> "none"]

PureIdle == selection = NoCall /\ recommendation = NoCall

CliNotStarted == [pc |-> "off", mode |-> "", exportFailed |-> FALSE]

CliIdle ==
  /\ cli = CliNotStarted
  /\ exported = <<>>
  /\ errOut = <<>>

ProbeInit ==
  /\ results = <<>>
  /\ now = 0
  /\ ProbeIdle
  /\ reportOut = NoReport
  /\ LoadIdle
  /\ MonIdle
  /\ RunIdle
  /\ PureIdle
  /\ CliIdle

\* testSingleRequest(endpoint, method), the network settling the fetch at
\* fetchAt and, if it resolved, the body at textAt
Probe ==
  \E endpoint \in ProbeEndpoints, method \in ProbeMethods,
     fetchOk \in BOOLEAN, textOk \in BOOLEAN,
     status \in HttpStatuses, length \in BodyLengths,
     fetchAt \in ProbeTimes, textAt \in ProbeTimes :
    /\ fetchAt >= now
    /\ textAt >= fetchAt
    /\ ~fetchOk => (textOk /\ textAt = fetchAt /\ status = 200 /\ length = 0)
    /\ (fetchOk /\ ~textOk) => length = 0
    /\ probeIn' = [kind |-> "call", endpoint |-> endpoint, method |-> method,
                   startTime |-> now, fetchOk |-> fetchOk, status |-> status,
                   fetchAt |-> fetchAt, textOk |-> textOk, length |-> length,
                   textAt |-> textAt]
    /\ probeOut' = testSingleRequest(endpoint, method, now, fetchOk, status,
                                     fetchAt, textOk, length, textAt)
    /\ now' = textAt
    /\ UNCHANGED <<pureVars, cliVars, errOut, results, reportOut, loadVars, monVars, runVars>>

\* the clock starts over for the next call
ProbeRewind ==
  /\ probeIn.kind = "call"
  /\ now > 0
  /\ now' = 0
  /\ probeIn' = NoProbe
  /\ probeOut' = NoProbe
  /\ UNCHANGED <<pureVars, cliVars, errOut, results, reportOut, loadVars, monVars, runVars>>

ProbeNext == Probe \/ ProbeRewind

SpecProbe == ProbeInit /\ [][ProbeNext]_vars

\* C1: testSingleRequest never throws: whatever the network does (the fetch
\* resolves with any status, the fetch rejects, the body read rejects), the call
\* settles to exactly one sample for the endpoint and method it was given, and
\* after a caught failure that sample has statusCode = 0 and contentLength = 0.
C1_ProbeAlwaysOneSample ==
  probeIn.kind = "call" =>
    /\ probeOut.kind = "sample"
    /\ probeOut.sample.endpoint = probeIn.endpoint
    /\ probeOut.sample.method = probeIn.method
    /\ (~probeIn.fetchOk \/ ~probeIn.textOk) =>
         (probeOut.sample.statusCode = 0 /\ probeOut.sample.contentLength = 0)
    /\ (probeIn.fetchOk /\ probeIn.textOk) =>
         probeOut.sample.statusCode = probeIn.status

\* the body read failed after a 200 response arrived, and a sentinel sample came back
C1_Witness ==
  /\ probeIn.kind = "call"
  /\ probeIn.fetchOk /\ ~probeIn.textOk /\ probeIn.status = 200
  /\ probeOut.kind = "sample"
  /\ probeOut.sample.statusCode = 0

\* C20: for a probe that received its response and read its body, responseTime
\* runs from the dispatch to the moment the body has been read in full.
C20_TimeIncludesBody ==
  (probeIn.kind = "call" /\ probeIn.fetchOk /\ probeIn.textOk) =>
    probeOut.sample.responseTime = probeIn.textAt - probeIn.startTime

----------------------------------------------------------------------------
(* The report generator under test: generateReport over every Result Set of *)
(* at most MaxLen samples, and every one of at most BulkBase samples        *)
(* followed by BulkLen fast successes.                                      *)

ReportEndpoints == {"/", "/health"}
ReportStatuses == {0, 200, 400}
ReportTimes == {10, 120, 250}

\* the same endpoint probed with another method
PostSample == PerformanceMetric("/", "POST", 120, 200, 0, 0)

ReportSamples ==
  { PerformanceMetric(e, "GET", t, st, 0, 0) :
      e \in ReportEndpoints, t \in ReportTimes, st \in ReportStatuses }
    \cup {PostSample}



FastSample == PerformanceMetric("/", "GET", 10, 200, 0, 0)

ReportInputs ==
  SeqsUpTo(ReportSamples, MaxLen)
    \cup { base \o Repeat(FastSample, BulkLen) : base \in SeqsUpTo(ReportSamples, BulkBase) }

ReportInit ==
  /\ results \in ReportInputs
  /\ now = 0
  /\ ProbeIdle
  /\ reportOut = NoReport
  /\ LoadIdle
  /\ MonIdle
  /\ RunIdle
  /\ PureIdle
  /\ CliIdle

\* this.generateReport()
GenerateReport ==
  /\ reportOut = NoReport
  /\ reportOut' = generateReport(results)
  /\ UNCHANGED <<pureVars, cliVars, errOut, results, now, probeVars, loadVars, monVars, runVars>>

ReportNext == GenerateReport

SpecReport == ReportInit /\ [][ReportNext]_vars

\* the successful response times of a Result Set, as a set of positions
SuccessAt(rs) == { i \in 1..Len(rs) : rs[i].statusCode \in 200..399 }

\* C2: generateReport fails with the empty-result error on an empty Result Set,
\* with the different no-successful-samples error on a non-empty one without a
\* sample of status 200..399, and succeeds whenever there is such a sample.
C2_ReportErrors ==
  reportOut # NoReport =>
    /\ NoResultsError # NoSuccessError
    /\ Len(results) = 0 =>
         (reportOut.kind = "error" /\ reportOut.message = NoResultsError)
    /\ (Len(results) > 0 /\ SuccessAt(results) = {}) =>
         (reportOut.kind = "error" /\ reportOut.message = NoSuccessError)
    /\ SuccessAt(results) # {} => reportOut.kind = "report"

\* a Result Set of failures only (a 400 among them) was refused
C2_Witness ==
  /\ reportOut.kind = "error"
  /\ reportOut.message = NoSuccessError
  /\ \E i \in 1..Len(results) : results[i].statusCode = 400

\* C9: the summary percentiles of a report are ordered:
\* min <= p50 <= p95 <= p99 <= max.
C9_PercentilesOrdered ==
  reportOut.kind = "report" =>
    /\ reportOut.summary.minResponseTime <= reportOut.summary.p50ResponseTime
    /\ reportOut.summary.p50ResponseTime <= reportOut.summary.p95ResponseTime
    /\ reportOut.summary.p95ResponseTime <= reportOut.summary.p99ResponseTime
    /\ reportOut.summary.p99ResponseTime <= reportOut.summary.maxResponseTime

\* a report over unsorted samples whose p95 lies strictly between p50 and max
C9_Witness ==
  /\ reportOut.kind = "report"
  /\ \E i \in 1..(Len(results) - 1) :
       /\ i \in SuccessAt(results) /\ (i + 1) \in SuccessAt(results)
       /\ results[i].responseTime > results[i + 1].responseTime
  /\ reportOut.summary.minResponseTime < reportOut.summary.p99ResponseTime
  /\ reportOut.summary.p95ResponseTime < reportOut.summary.p99ResponseTime

\* v is the element at 0-based index idx of the successful response times of rs
\* in ascending order: at most idx of them are below v, more than idx are at
\* most v, and v is one of them
IsElementAtRank(rs, idx, v) ==
  /\ \E i \in SuccessAt(rs) : rs[i].responseTime = v
  /\ Cardinality({ i \in SuccessAt(rs) : rs[i].responseTime < v }) <= idx
  /\ Cardinality({ i \in SuccessAt(rs) : rs[i].responseTime <= v }) > idx

\* floor(n * pct / 100): the largest k with 100 * k <= n * pct
FloorRank(n, pct) == CHOOSE k \in 0..n : 100 * k <= n * pct /\ 100 * (k + 1) > n * pct

\* C10: with n successful samples, each summary percentile p in {50, 95, 99} is
\* the element at index floor(n * p / 100) of the successful response times in
\* ascending order, no interpolation.
C10_PercentileIndex ==
  reportOut.kind = "report" =>
    LET n == Cardinality(SuccessAt(results))
    IN /\ IsElementAtRank(results, FloorRank(n, 50), reportOut.summary.p50ResponseTime)
       /\ IsElementAtRank(results, FloorRank(n, 95), reportOut.summary.p95ResponseTime)
       /\ IsElementAtRank(results, FloorRank(n, 99), reportOut.summary.p99ResponseTime)

\* more than 20 successes, so that p50, p95 and p99 sit at three different
\* indexes, and the three values differ
C10_Witness ==
  /\ reportOut.kind = "report"
  /\ Cardinality(SuccessAt(results)) > 20
  /\ reportOut.summary.p50ResponseTime < reportOut.summary.p95ResponseTime
  /\ reportOut.summary.p95ResponseTime < reportOut.summary.p99ResponseTime

\* C11: in a report, successRate is the share, in percent, of the samples with
\* 200 <= statusCode < 400 among all samples, errorRate is the share of the
\* other samples among all samples, and successRate + errorRate = 100.
C11_RatesSumTo100 ==
  reportOut.kind = "report" =>
    LET n == Len(results)
        ok == Cardinality(SuccessAt(results))
        sr == reportOut.summary.successRate
        er == reportOut.summary.errorRate
    IN /\ sr.num * n = 100 * ok * sr.den
       /\ er.num * n = 100 * (n - ok) * er.den
       /\ sr.num * er.den + er.num * sr.den = 100 * sr.den * er.den

\* a report over two successes and one failure: the rates are 200/3 and 100/3
C11_Witness ==
  /\ reportOut.kind = "report"
  /\ Len(results) = 3
  /\ Cardinality(SuccessAt(results)) = 2
  /\ reportOut.summary.errorRate.num * 3 = 100 * reportOut.summary.errorRate.den

\* the sum of the response times at the positions S of rs
RECURSIVE SumTimesAt(_, _)
SumTimesAt(rs, S) ==
  IF S = {} THEN 0
  ELSE LET i == CHOOSE j \in S : TRUE
       IN rs[i].responseTime + SumTimesAt(rs, S \ {i})

\* C12: in a report, totalRequests counts all samples, successes and failures,
\* while the mean, the minimum and the maximum are those of the response times
\* of the successful samples alone.
C12_TotalsAndSuccessTimes ==
  reportOut.kind = "report" =>
    LET ok == SuccessAt(results)
        avg == reportOut.summary.averageResponseTime
    IN /\ reportOut.summary.totalRequests = Len(results)
       /\ avg.num * Cardinality(ok) = SumTimesAt(results, ok) * avg.den
       /\ \E i \in ok : results[i].responseTime = reportOut.summary.minResponseTime
       /\ \A i \in ok : results[i].responseTime >= reportOut.summary.minResponseTime
       /\ \E i \in ok : results[i].responseTime = reportOut.summary.maxResponseTime
       /\ \A i \in ok : results[i].responseTime <= reportOut.summary.maxResponseTime

\* a report over a success, and failures both faster and slower than every
\* success
C12_Witness ==
  /\ reportOut.kind = "report"
  /\ reportOut.summary.totalRequests > Cardinality(SuccessAt(results))
  /\ \E i \in 1..Len(results) :
       /\ i \notin SuccessAt(results)
       /\ results[i].responseTime > reportOut.summary.maxResponseTime
  /\ \E i \in 1..Len(results) :
       /\ i \notin SuccessAt(results)
       /\ results[i].responseTime < reportOut.summary.minResponseTime

\* the positions of rs whose sample has this endpoint path
EndpointAt(rs, endpoint) == { i \in 1..Len(rs) : rs[i].endpoint = endpoint }

\* the sum of the request counts of the groups S of a breakdown
RECURSIVE SumRequests(_, _)
SumRequests(breakdown, S) ==
  IF S = {} THEN 0
  ELSE LET e == CHOOSE x \in S : TRUE
       IN breakdown[e].requests + SumRequests(breakdown, S \ {e})

\* C13: the endpoint breakdown of a report has one group per distinct endpoint
\* path, whatever the method; a group counts every sample of its path,
\* successful or failed; the groups' counts sum to totalRequests.
C13_BreakdownCoversAll ==
  reportOut.kind = "report" =>
    LET breakdown == reportOut.endpointBreakdown
    IN /\ DOMAIN breakdown = { results[i].endpoint : i \in 1..Len(results) }
       /\ \A e \in DOMAIN breakdown :
            breakdown[e].requests = Cardinality(EndpointAt(results, e))
       /\ SumRequests(breakdown, DOMAIN breakdown) = reportOut.summary.totalRequests

\* a report over two paths, one of them probed with GET and POST and holding a
\* failed sample
C13_Witness ==
  /\ reportOut.kind = "report"
  /\ Cardinality(DOMAIN reportOut.endpointBreakdown) = 2
  /\ \E i, j, k \in 1..Len(results) :
       /\ results[i].endpoint = "/" /\ results[i].method = "GET"
       /\ results[i].statusCode = 0
       /\ results[j].endpoint = "/" /\ results[j].method = "POST"
       /\ results[k].endpoint = "/health"
  /\ reportOut.endpointBreakdown["/"].requests = 2

----------------------------------------------------------------------------
(* Weighted selection: selectRandomEndpoint.  A draw Math.random() *       *)
(* totalWeight is counted in halves, so that it can fall on a cumulative    *)
(* weight or strictly between two.                                          *)

RECURSIVE TotalWeightFrom(_, _)
TotalWeightFrom(endpoints, i) ==
  IF i > Len(endpoints) THEN 0
  ELSE endpoints[i].weight + TotalWeightFrom(endpoints, i + 1)

\* endpoints.reduce((sum, ep) => sum + ep.weight, 0)
TotalWeight(endpoints) == TotalWeightFrom(endpoints, 1)

\* the walk with a strict test: an entry is hit only below zero
RECURSIVE WalkCatalog_Strict(_, _, _)
WalkCatalog_Strict(endpoints, i, random2) ==
  IF i > Len(endpoints) THEN endpoints[1]
  ELSE IF random2 - 2 * endpoints[i].weight < 0 THEN endpoints[i]
       ELSE WalkCatalog_Strict(endpoints, i + 1, random2 - 2 * endpoints[i].weight)

\* the for loop: random -= endpoint.weight; if (random <= 0) return endpoint;
\* past the last entry, the fallback endpoints[0]
RECURSIVE WalkCatalog(_, _, _)
WalkCatalog(endpoints, i, random2) ==
  IF i > Len(endpoints) THEN endpoints[1]
  ELSE IF random2 - 2 * endpoints[i].weight <= 0 THEN endpoints[i]
       ELSE WalkCatalog(endpoints, i + 1, random2 - 2 * endpoints[i].weight)

\* the draws of a catalog: [0, totalWeight) in halves
Draws(endpoints) == 0..(2 * TotalWeight(endpoints) - 1)

selectRandomEndpoint(random2) == WalkCatalog(getTestEndpoints, 1, random2)

----------------------------------------------------------------------------
(* Load driver: runLoadTest and simulateUser.  A step runs from one await   *)
(* to the next: JavaScript runs each continuation to completion.            *)
(*                                                                          *)
(* The clock of a load run is read in windows of 60 s, the default          *)
(* duration: a run lasts a whole number of windows, so the loop condition   *)
(* Date.now() < endTime reads the same anywhere inside a window.  A user    *)
(* delay of 500 to 2000 ms ends in the window it began in or in a later     *)
(* one, and a run dispatches at most MaxProbes probes.                      *)

\* the progress line is written every fifth request of user 0
ProgressEvery == 5

\* what the network and Math.random() do in a load run
LoadDraws == {0}
LoadDurations == {0, 60}
LoadOutcomes ==
  { [fetchOk |-> TRUE, status |-> 200, textOk |-> TRUE, length |-> 7],
    [fetchOk |-> FALSE, status |-> 200, textOk |-> TRUE, length |-> 0] }

UserIds == DOMAIN users

\* a worker that goes back to its delay where the loop should be left
UserDone_StillSleeping(requestCount) ==
  [pc |-> "sleep", requestCount |-> requestCount, startTime |-> 0,
   endpoint |-> "", method |-> ""]

UserDone(requestCount) ==
  [pc |-> "done", requestCount |-> requestCount, startTime |-> 0,
   endpoint |-> "", method |-> ""]

\* the probes this run has dispatched: those that returned and those in flight
Dispatched == Len(probed) + Cardinality({ w \in UserIds : users[w].pc = "probe" })

\* the loop condition with the deadline itself still inside
BeforeDeadline_Inclusive(t, end) == t <= end

\* while (Date.now() < endTime)
BeforeDeadline(t, end) == t < end

\* the top of simulateUser's loop at time t: the next probe is dispatched
\* (testSingleRequest runs up to its await of fetch), or the loop is left
LoopHead(requestCount, t, end, random2) ==
  IF BeforeDeadline(t, end)
  THEN [pc |-> "probe", requestCount |-> requestCount, startTime |-> t,
        endpoint |-> selectRandomEndpoint(random2).path,
        method |-> selectRandomEndpoint(random2).method]
  ELSE UserDone(requestCount)

\* a loop head may run when the run's probes are not used up, or to leave the loop
CanLoop == now >= endTime \/ Dispatched < MaxProbes

\* a push that overwrites the last element
Push_Overwrite(arr, x) == IF arr = <<>> THEN <<x>> ELSE [arr EXCEPT ![Len(arr)] = x]

\* this.results.push(result)
Push(arr, x) == Append(arr, x)

\* a catch block around the loop: the error ends the loop
AfterCatch_LeaveLoop(requestCount, t, end, random2) == UserDone(requestCount)

\* the catch block sits inside the loop: control goes back to the loop condition
AfterCatch(requestCount, t, end, random2) == LoopHead(requestCount, t, end, random2)

\* Promise.all settling as soon as one simulateUser has settled
AllUsersDone_Any == \E w \in UserIds : users[w].pc = "done"

\* await Promise.all(userPromises): every simulateUser promise has resolved
AllUsersDone == \A w \in UserIds : users[w].pc = "done"

LoadInit ==
  /\ results = <<>>
  /\ now = 0
  /\ ProbeIdle
  /\ reportOut = NoReport
  /\ LoadIdle
  /\ MonIdle
  /\ RunIdle
  /\ PureIdle
  /\ CliIdle

\* runLoadTest(concurrentUsers, durationSeconds) up to its await of Promise.all:
\* every simulateUser call runs up to its first await
StartLoadTest ==
  /\ loadPc = "idle"
  /\ \E concurrentUsers \in 0..MaxUsers, durationSeconds \in LoadDurations :
       \E random2 \in [0..(concurrentUsers - 1) -> LoadDraws] :
         /\ results' = <<>>
         /\ endTime' = now + durationSeconds * 1000
         /\ users' = [w \in 0..(concurrentUsers - 1) |->
                        LoopHead(0, now, now + durationSeconds * 1000, random2[w])]
  /\ loadPc' = "running"
  /\ errLog' = <<>>
  /\ probed' = <<>>
  /\ UNCHANGED <<pureVars, cliVars, errOut, now, probeVars, reportVars, monVars, runVars>>

\* the sample a probe of user w returns at time now
LoadProbeResult(w, o) ==
  testSingleRequest(users[w].endpoint, users[w].method, users[w].startTime,
                    o.fetchOk, o.status, now, o.textOk, o.length, now)

\* user w's probe returns: push, requestCount++, the progress line if due,
\* then the user delay setTimeout(resolve, 500 + Math.random() * 1500)
ProbeDoneSleep(w) ==
  /\ users[w].pc = "probe"
  /\ \E o \in LoadOutcomes :
       /\ LoadProbeResult(w, o).kind = "sample"
       /\ results' = Push(results, LoadProbeResult(w, o).sample)
       /\ probed' = Append(probed, LoadProbeResult(w, o).sample)
       /\ users' = [users EXCEPT ![w] =
                      [pc |-> "sleep", requestCount |-> users[w].requestCount + 1,
                       startTime |-> 0, endpoint |-> "", method |-> ""]]
  /\ UNCHANGED <<pureVars, cliVars, errOut,
                 now, probeVars, reportVars, loadPc, endTime, errLog, monVars, runVars>>

\* user 0's probe returns and process.stdout.write throws on the progress line:
\* the catch block logs the userId, and the loop goes on without the delay
ProbeDoneCatch(w) ==
  /\ users[w].pc = "probe"
  /\ w = 0
  /\ (users[w].requestCount + 1) % ProgressEvery = 0
  /\ CanLoop
  /\ \E o \in LoadOutcomes, random2 \in LoadDraws :
       /\ LoadProbeResult(w, o).kind = "sample"
       /\ results' = Push(results, LoadProbeResult(w, o).sample)
       /\ probed' = Append(probed, LoadProbeResult(w, o).sample)
       /\ users' = [users EXCEPT ![w] =
                      AfterCatch(users[w].requestCount + 1, now, endTime, random2)]
  /\ errLog' = Append(errLog, w)
  /\ UNCHANGED <<pureVars, cliVars, errOut,
                 now, probeVars, reportVars, loadPc, endTime, monVars, runVars>>

\* user w's delay timer fires: back to the loop condition
Wake(w) ==
  /\ users[w].pc = "sleep"
  /\ CanLoop
  /\ \E random2 \in LoadDraws :
       users' = [users EXCEPT ![w] =
                   LoopHead(users[w].requestCount, now, endTime, random2)]
  /\ UNCHANGED <<pureVars, cliVars, errOut,
                 results, probed, now, probeVars, reportVars, loadPc, endTime, errLog,
                 monVars, runVars>>

\* the clock enters the next window, up to the one the deadline lies in
Tick ==
  /\ loadPc # "idle"
  /\ now < endTime
  /\ now' = now + 60 * 1000
  /\ UNCHANGED <<pureVars, cliVars, errOut,
                 results, probeVars, reportVars, loadPc, endTime, users, errLog, probed,
                 monVars, runVars>>

\* Promise.all resolves: runLoadTest returns generateReport(), or throws its error
FinishLoadTest ==
  /\ loadPc = "running"
  /\ AllUsersDone
  /\ reportOut' = generateReport(results)
  /\ loadPc' = IF generateReport(results).kind = "report" THEN "returned" ELSE "threw"
  /\ UNCHANGED <<pureVars, cliVars, errOut,
                 results, now, probeVars, endTime, users, errLog, probed, monVars, runVars>>

LoadNext ==
  \/ StartLoadTest
  \/ \E w \in UserIds : ProbeDoneSleep(w)
  \/ \E w \in UserIds : ProbeDoneCatch(w)
  \/ \E w \in UserIds : Wake(w)
  \/ Tick
  \/ FinishLoadTest

SpecLoad == LoadInit /\ [][LoadNext]_vars

RECURSIVE SumCounts(_)
SumCounts(ids) ==
  IF ids = {} THEN 0
  ELSE LET w == CHOOSE x \in ids : TRUE
       IN users[w].requestCount + SumCounts(ids \ {w})

\* C3: in a load run the Result Set holds exactly one entry per probe that
\* returned to any user, in completion order: it is the sequence of returned
\* samples, and its length is the sum of the users' request counts.
C3_OneEntryPerProbe ==
  /\ results = probed
  /\ Len(results) = SumCounts(UserIds)

\* two users have each had two probes return, and a failure is among the samples
C3_Witness ==
  /\ Cardinality(UserIds) = 2
  /\ \A w \in UserIds : users[w].requestCount >= 2
  /\ \E i \in 1..Len(results) : results[i].statusCode = 0
  /\ \E i \in 1..Len(results) : results[i].statusCode = 200

\* C4 as stated: once a user's error has been logged, that user's loop has
\* ended (it has dispatched no further probe).
C4_LoggedUserHasStopped ==
  \A w \in UserIds :
    (\E i \in 1..Len(errLog) : errLog[i] = w) => users[w].pc = "done"

\* C4 as amended: the step in which user w's error is logged pushes w's sample,
\* takes w straight back to the loop condition (its next probe is dispatched
\* if the deadline has not passed, else the loop ends) and leaves every other
\* user where it was.
C4_LoggedUserLoopsOn ==
  [][ Len(errLog') > Len(errLog) =>
        LET w == errLog'[Len(errLog')]
        IN /\ errLog' = Append(errLog, w)
           /\ w \in UserIds
           /\ users[w].pc = "probe"
           /\ users'[w].requestCount = users[w].requestCount + 1
           /\ Len(results') = Len(results) + 1
           /\ users'[w].pc = IF now < endTime THEN "probe" ELSE "done"
           /\ \A v \in UserIds \ {w} : users'[v] = users[v] ]_vars

\* user 0's error was logged before the deadline, user 0 has had a further
\* probe return since, and the other user is still looping
C4_Witness ==
  /\ errLog # <<>>
  /\ now < endTime
  /\ 0 \in UserIds /\ 1 \in UserIds
  /\ users[0].requestCount > ProgressEvery
  /\ users[1].pc # "done"

\* user w dispatches a probe in this step
Dispatches(w) ==
  /\ users'[w].pc = "probe"
  /\ \/ w \notin UserIds
     \/ users[w].pc # "probe"
     \/ users'[w].requestCount # users[w].requestCount

\* C7: the deadline is checked at the top of the loop only: a user dispatches a
\* probe only while the clock is before endTime, and a probe in flight always
\* returns its sample to the Result Set, also when the deadline has passed.
C7_DeadlineAtLoopTop ==
  [][ /\ \A w \in DOMAIN users' : Dispatches(w) => now' < endTime'
      /\ \A w \in UserIds :
           (loadPc' # "idle" /\ users[w].pc = "probe" /\ users'[w] # users[w]) =>
             /\ Len(results') = Len(results) + 1
             /\ results'[Len(results')].endpoint = users[w].endpoint
             /\ results'[Len(results')].timestamp = now ]_vars

\* a sample of a probe that was dispatched before the deadline and returned
\* after it is in the Result Set
C7_Witness ==
  /\ endTime > 0
  /\ \E i \in 1..Len(results) :
       /\ results[i].timestamp >= endTime
       /\ results[i].timestamp - results[i].responseTime < endTime

\* C8: when runLoadTest has generated its report (or thrown the generator's
\* error), every user has left its loop, and the report is over the final
\* Result Set: nothing is appended afterwards.
C8_ReportAfterAllUsers ==
  loadPc \in {"returned", "threw"} =>
    /\ \A w \in UserIds : users[w].pc = "done"
    /\ reportOut = generateReport(results)
    /\ reportOut.kind = "report" => reportOut.timeSeriesData = probed

\* a run of two users has returned its report, one sample of it past the deadline
C8_Witness ==
  /\ loadPc = "returned"
  /\ Cardinality(UserIds) = 2
  /\ \A w \in UserIds : users[w].requestCount >= 1
  /\ \E i \in 1..Len(results) : results[i].timestamp >= endTime

----------------------------------------------------------------------------
(* Monitor: startRealTimeMonitoring, its monitoringLoop and its SIGINT      *)
(* listener.  The clock advances in ticks of 5 s.                           *)

\* the rolling figures are over the last 10 measurements
RollingWindow == 10

MonIntervals == {5, 10}
MonDraws == {0, 225}
MonOutcomes ==
  { [fetchOk |-> TRUE, status |-> 200, textOk |-> TRUE, length |-> 7],
    [fetchOk |-> TRUE, status |-> 500, textOk |-> TRUE, length |-> 7],
    [fetchOk |-> FALSE, status |-> 200, textOk |-> TRUE, length |-> 0] }

\* monitoringResults.slice(-10)
SliceLast(arr, k) ==
  IF Len(arr) <= k THEN arr ELSE SubSeq(arr, Len(arr) - k + 1, Len(arr))

\* Math.max(0, x)
Max0(x) == IF x > 0 THEN x ELSE 0

\* the top of monitoringLoop's loop: startTime = Date.now(), an endpoint is
\* selected and its probe dispatched
MonLoopHead(intervalSeconds, avg, rate, random2) ==
  [pc |-> "probe", intervalSeconds |-> intervalSeconds, startTime |-> now,
   probeStart |-> now, wakeAt |-> 0,
   endpoint |-> selectRandomEndpoint(random2).path,
   method |-> selectRandomEndpoint(random2).method,
   avgResponseTime |-> avg, successRate |-> rate]

MonitorInit ==
  /\ results = <<>>
  /\ now = 0
  /\ ProbeIdle
  /\ reportOut = NoReport
  /\ LoadIdle
  /\ MonIdle
  /\ RunIdle
  /\ PureIdle
  /\ CliIdle

\* startRealTimeMonitoring(intervalSeconds): the SIGINT listener is added, then
\* monitoringLoop runs up to its first await
StartMonitoring ==
  /\ monitor.pc = "off"
  /\ \E intervalSeconds \in MonIntervals, random2 \in MonDraws :
       monitor' = MonLoopHead(intervalSeconds, Fraction(0, 1), Fraction(0, 1), random2)
  /\ monitoringResults' = <<>>
  /\ UNCHANGED <<pureVars, cliVars, errOut,
                 results, now, probeVars, reportVars, loadVars, printed, exitCode, runVars>>

\* the probe returns: push to monitoringResults, the rolling figures of the
\* status line, then the wait for the rest of the interval
MonProbeDone ==
  /\ monitor.pc = "probe"
  /\ \E o \in MonOutcomes :
       LET out == testSingleRequest(monitor.endpoint, monitor.method, monitor.probeStart,
                                    o.fetchOk, o.status, now, o.textOk, o.length, now)
           all == Append(monitoringResults, out.sample)
           recent == SliceLast(all, RollingWindow)
           elapsed == now - monitor.startTime
           delay == Max0(monitor.intervalSeconds * 1000 - elapsed)
       IN /\ out.kind = "sample"
          /\ monitoringResults' = all
          /\ monitor' = [monitor EXCEPT
                           !.pc = "sleep", !.wakeAt = now + delay,
                           !.endpoint = "", !.method = "",
                           !.avgResponseTime = Fraction(SumSeq(MapTimes(recent)), Len(recent)),
                           !.successRate = Fraction(Len(Successful(recent)) * 100, Len(recent))]
  /\ UNCHANGED <<pureVars, cliVars, errOut,
                 results, now, probeVars, reportVars, loadVars, printed, exitCode, runVars>>

\* the interval timer fires: the next iteration
MonWake ==
  /\ monitor.pc = "sleep"
  /\ now >= monitor.wakeAt
  /\ \E random2 \in MonDraws :
       monitor' = MonLoopHead(monitor.intervalSeconds, monitor.avgResponseTime,
                              monitor.successRate, random2)
  /\ UNCHANGED <<pureVars, cliVars, errOut,
                 results, now, monitoringResults, probeVars, reportVars, loadVars,
                 printed, exitCode, runVars>>

\* the clock advances by 5 s
MonTick ==
  /\ monitor.pc \in {"probe", "sleep"}
  /\ now < MaxMonTicks * 5000
  /\ now' = now + 5000
  /\ UNCHANGED <<pureVars, cliVars, errOut,
                 results, monitoringResults, monitor, probeVars, reportVars, loadVars,
                 printed, exitCode, runVars>>

\* the SIGINT listener: this.results = monitoringResults; with a sample in it,
\* generateReport() and displayReport(report); Deno.exit(0).  An error thrown by
\* generateReport() is caught by nobody: the runtime prints it and the process
\* ends on it with code 1.
Sigint ==
  /\ monitor.pc \in {"probe", "sleep"}
  /\ results' = monitoringResults
  /\ IF Len(monitoringResults) > 0
     THEN LET report == generateReport(monitoringResults)
          IN /\ reportOut' = report
             /\ IF report.kind = "report"
                THEN /\ printed' = Append(printed, report)
                     /\ exitCode' = 0
                     /\ errOut' = errOut
                ELSE /\ printed' = printed
                     /\ exitCode' = 1
                     /\ errOut' = Append(errOut, report.message)
     ELSE /\ reportOut' = reportOut
          /\ printed' = printed
          /\ exitCode' = 0
          /\ errOut' = errOut
  /\ monitor' = [monitor EXCEPT !.pc = "exited"]
  /\ UNCHANGED <<pureVars, cliVars, now, monitoringResults, probeVars, loadVars, runVars>>

MonitorNext == StartMonitoring \/ MonProbeDone \/ MonWake \/ MonTick \/ Sigint

SpecMonitor == MonitorInit /\ [][MonitorNext]_vars

\* C5: when the interrupt has ended a monitor that had collected a sample,
\* whatever the status codes, one report was printed, and it is over all the
\* samples collected.
C5_InterruptPrintsReport ==
  (monitor.pc = "exited" /\ Len(monitoringResults) > 0) =>
    /\ Len(printed) = 1
    /\ printed[1].timeSeriesData = monitoringResults

----------------------------------------------------------------------------
(* Fixed-count drivers: runQuickBenchmark and runCambridgeValidation, two   *)
(* invocations on one instance; the second may start while the first is at  *)
(* an await.                                                                *)

RunKinds == {"quick", "cambridge"}
QuickDraws == {140}
CambridgeDraws == {140}
RunLatencies == {10}
RunOutcomes ==
  { [fetchOk |-> TRUE, status |-> 200, textOk |-> TRUE, length |-> 7],
    [fetchOk |-> FALSE, status |-> 200, textOk |-> TRUE, length |-> 0] }

\* the selection made over the general catalog
selectCambridgeEndpoint_General(random2) == WalkCatalog(getTestEndpoints, 1, random2)

\* the selection loop inlined in runCambridgeValidation
selectCambridgeEndpoint(random2) == WalkCatalog(cambridgeEndpoints, 1, random2)

RunDraws(kind) == IF kind = "quick" THEN QuickDraws ELSE CambridgeDraws

RunSelect(kind, random2) ==
  IF kind = "quick" THEN selectRandomEndpoint(random2) ELSE selectCambridgeEndpoint(random2)

\* the interval rounded up: Math.ceil(requests / 10)
ProgressInterval_Ceil(requests) == (requests + 9) \div 10

\* Math.max(1, Math.floor(requests / 10))
ProgressInterval(requests) == IF requests \div 10 > 1 THEN requests \div 10 ELSE 1

\* the progress line is due after the probe numbered i (from 0)
ProgressDue(run) == (run.i + 1) % ProgressInterval(run.requests) = 0

\* the loop condition with the bound included
MoreRequests_Inclusive(i, requests) == i <= requests

\* i < requests
MoreRequests(i, requests) == i < requests

\* the loop condition i < requests of run r, with i already set: the next
\* probe is dispatched, or the loop is left and this.generateReport() returned
RunLoopHead(run, i, rs, random2) ==
  IF MoreRequests(i, run.requests)
  THEN [run EXCEPT !.pc = "probe", !.i = i,
                   !.endpoint = RunSelect(run.kind, random2).path,
                   !.method = RunSelect(run.kind, random2).method]
  ELSE LET report == generateReport(rs)
       IN [run EXCEPT !.pc = IF report.kind = "report" THEN "returned" ELSE "threw",
                      !.i = i, !.endpoint = "", !.method = "",
                      !.out = report]

RunsInit ==
  /\ results = <<>>
  /\ now = 0
  /\ ProbeIdle
  /\ reportOut = NoReport
  /\ LoadIdle
  /\ MonIdle
  /\ RunIdle
  /\ PureIdle
  /\ CliIdle

\* runQuickBenchmark(requests) or runCambridgeValidation(requests), up to its
\* first await: this.results = [], then the loop
StartRunOf(r, kind, requests) ==
  /\ runs[r].pc = "new"
  /\ \A q \in RunIds : q < r => runs[q].pc # "new"
  /\ \E random2 \in RunDraws(kind) :
       /\ results' = <<>>
       /\ runs' = [runs EXCEPT ![r] =
                     RunLoopHead([RunNotStarted EXCEPT !.kind = kind, !.requests = requests],
                                 0, <<>>, random2)]
  /\ UNCHANGED <<pureVars, cliVars, errOut, now, probeVars, reportVars, loadVars, monVars>>

StartRun(r) ==
  \E kind \in RunKinds, requests \in 0..MaxRequests : StartRunOf(r, kind, requests)

\* run r's probe returns: push, the progress line if due, then the 10 ms delay
RunProbeDoneWith(r, o) ==
  /\ runs[r].pc = "probe"
  /\ \E latency \in RunLatencies :
       LET out == testSingleRequest(runs[r].endpoint, runs[r].method, now, o.fetchOk,
                                    o.status, now + latency, o.textOk, o.length,
                                    now + latency)
       IN /\ out.kind = "sample"
          /\ results' = Push(results, out.sample)
          /\ runs' = [runs EXCEPT
                        ![r].pc = "sleep", ![r].endpoint = "", ![r].method = "",
                        ![r].probed = Append(runs[r].probed, out.sample),
                        ![r].progress =
                          IF ProgressDue(runs[r])
                          THEN Append(runs[r].progress, runs[r].i + 1)
                          ELSE runs[r].progress]
  /\ UNCHANGED <<pureVars, cliVars, errOut, now, probeVars, reportVars, loadVars, monVars>>

RunProbeDone(r) == \E o \in RunOutcomes : RunProbeDoneWith(r, o)

ProcessError == "process is not defined"

\* run r's probe returns and is pushed, and the progress write, which is due,
\* throws (process.stdout is not there to write to): nothing in the driver
\* catches it, the run's promise rejects
RunProbeDoneThrow(r) ==
  /\ runs[r].pc = "probe"
  /\ ProgressDue(runs[r])
  /\ \E o \in RunOutcomes, latency \in RunLatencies :
       LET out == testSingleRequest(runs[r].endpoint, runs[r].method, now, o.fetchOk,
                                    o.status, now + latency, o.textOk, o.length,
                                    now + latency)
       IN /\ out.kind = "sample"
          /\ results' = Push(results, out.sample)
          /\ runs' = [runs EXCEPT
                        ![r].pc = "failed", ![r].endpoint = "", ![r].method = "",
                        ![r].probed = Append(runs[r].probed, out.sample),
                        ![r].out = [kind |-> "error", message |-> ProcessError]]
  /\ UNCHANGED <<pureVars, cliVars, errOut, now, probeVars, reportVars, loadVars, monVars>>

\* run r's delay timer fires: i++, then the loop condition
RunWake(r) ==
  /\ runs[r].pc = "sleep"
  /\ \E random2 \in RunDraws(runs[r].kind) :
       runs' = [runs EXCEPT ![r] = RunLoopHead(runs[r], runs[r].i + 1, results, random2)]
  /\ UNCHANGED <<pureVars, cliVars, errOut,
                 results, now, probeVars, reportVars, loadVars, monVars>>

RunsNext ==
  \/ \E r \in RunIds : StartRun(r)
  \/ \E r \in RunIds : RunProbeDone(r)
  \/ \E r \in RunIds : RunProbeDoneThrow(r)
  \/ \E r \in RunIds : RunWake(r)

SpecRuns == RunsInit /\ [][RunsNext]_vars

\* C6: the report a run returns holds exactly the samples that run probed, also
\* when another run was started on the instance before it finished.
C6_ReportHoldsOwnSamples ==
  \A r \in RunIds :
    runs[r].pc = "returned" => runs[r].out.timeSeriesData = runs[r].probed

\* run r is the only invocation made on the instance so far
OnlyRun(r) == \A q \in RunIds \ {r} : runs[q].pc = "new"

\* C14: a fixed-count run of N requests is sequential: at a dispatch every
\* earlier probe of the run has had its sample appended, so at most one probe is
\* in flight; when the loop has ended the run has appended exactly N samples,
\* and the Result Set of an instance used by this run alone is those samples in
\* completion order.
C14_SequentialFixedCount ==
  \A r \in RunIds :
    /\ runs[r].pc = "probe" =>
         (Len(runs[r].probed) = runs[r].i /\ runs[r].i < runs[r].requests)
    /\ runs[r].pc = "sleep" =>
         (Len(runs[r].probed) = runs[r].i + 1 /\ runs[r].i < runs[r].requests)
    /\ runs[r].pc \in {"returned", "threw"} => Len(runs[r].probed) = runs[r].requests
    /\ (runs[r].pc # "new" /\ OnlyRun(r)) => results = runs[r].probed

\* a validation run of MaxRequests requests, alone on the instance, has left
\* its loop with a failed and a successful sample in the Result Set
C14_Witness ==
  \E r \in RunIds :
    /\ runs[r].pc = "returned"
    /\ runs[r].kind = "cambridge"
    /\ OnlyRun(r)
    /\ runs[r].requests = MaxRequests
    /\ Len(results) = MaxRequests
    /\ \E i \in 1..Len(results) : results[i].statusCode = 0

\* the paths of the validation catalog
CambridgePaths == { cambridgeEndpoints[k].path : k \in 1..Len(cambridgeEndpoints) }

\* C19: a validation run probes endpoints of the validation catalog only: every
\* probe the run dispatches and every sample it appends has a path of that
\* catalog, and so has every sample of the Result Set of an instance used by
\* this run alone.
C19_ValidationCatalogOnly ==
  \A r \in RunIds :
    runs[r].kind = "cambridge" =>
      /\ runs[r].pc = "probe" => runs[r].endpoint \in CambridgePaths
      /\ \A i \in 1..Len(runs[r].probed) : runs[r].probed[i].endpoint \in CambridgePaths
      /\ OnlyRun(r) => \A i \in 1..Len(results) : results[i].endpoint \in CambridgePaths

\* a validation run has appended a sample for a draw at which the general
\* catalog has an endpoint that the validation catalog lacks
C19_Witness ==
  \E r \in RunIds :
    /\ runs[r].kind = "cambridge"
    /\ OnlyRun(r)
    /\ Len(results) >= 1
    /\ \E random2 \in CambridgeDraws :
         /\ selectRandomEndpoint(random2).path \notin CambridgePaths
         /\ results[1].endpoint = selectCambridgeEndpoint(random2).path

----------------------------------------------------------------------------
(* Weighted selection under test: both selections, over every draw of      *)
(* their catalogs.                                                          *)

SelectCatalogs == {"test", "cambridge"}

CatalogOf(name) == IF name = "test" THEN getTestEndpoints ELSE cambridgeEndpoints

SelectFrom(name, random2) ==
  IF name = "test" THEN selectRandomEndpoint(random2) ELSE selectCambridgeEndpoint(random2)

SelectInit ==
  /\ results = <<>>
  /\ now = 0
  /\ ProbeIdle
  /\ reportOut = NoReport
  /\ LoadIdle
  /\ MonIdle
  /\ RunIdle
  /\ PureIdle
  /\ CliIdle

\* one selection, with the draw Math.random() * totalWeight = random2 / 2
Select ==
  /\ \E name \in SelectCatalogs :
       \E random2 \in Draws(CatalogOf(name)) :
         selection' = [kind |-> "call", catalog |-> name, random2 |-> random2,
                       endpoint |-> SelectFrom(name, random2)]
  /\ UNCHANGED <<results, now, probeVars, reportVars, loadVars, monVars, runVars,
                 recommendation, cliVars, errOut>>

SelectNext == Select

SpecSelect == SelectInit /\ [][SelectNext]_vars

\* the sum of the weights of the first k entries of a catalog
RECURSIVE CumulativeWeight(_, _)
CumulativeWeight(endpoints, k) ==
  IF k = 0 THEN 0 ELSE CumulativeWeight(endpoints, k - 1) + endpoints[k].weight

\* C15: for a draw r in [0, totalWeight) over a catalog of positive weights,
\* the selection returns a member of the catalog, the first entry in catalog
\* order whose cumulative weight reaches r (r minus it is zero or below).
C15_SelectionFirstHit ==
  selection.kind = "call" =>
    LET endpoints == CatalogOf(selection.catalog)
    IN /\ \A k \in 1..Len(endpoints) : endpoints[k].weight > 0
       /\ selection.random2 < 2 * TotalWeight(endpoints)
       /\ \E k \in 1..Len(endpoints) :
            /\ selection.endpoint = endpoints[k]
            /\ selection.random2 <= 2 * CumulativeWeight(endpoints, k)
            /\ \A j \in 1..(k - 1) :
                 selection.random2 > 2 * CumulativeWeight(endpoints, j)

\* a draw that falls exactly on the cumulative weight of an entry past the
\* first, in the validation catalog, returned that entry
C15_Witness ==
  /\ selection.kind = "call"
  /\ selection.catalog = "cambridge"
  /\ \E k \in 2..Len(cambridgeEndpoints) :
       /\ selection.random2 = 2 * CumulativeWeight(cambridgeEndpoints, k)
       /\ selection.endpoint = cambridgeEndpoints[k]

----------------------------------------------------------------------------
(* The recommendations under test: generateRecommendations with arguments  *)
(* as generateReport passes them: the successful response times, ascending *)
(* and not empty, and the share of them among all samples.                  *)

RecSuccesses == {1, 2, 20, 99, 100}
RecFailures == {0, 1, 2}
RecTimes == {10, 49, 50, 99, 100, 150, 199, 200, 250}

RecInputs ==
  { [kind |-> "call",
     responseTimes |-> [i \in 1..s |-> IF i < s THEN t1 ELSE t2],
     successRate |-> Fraction(s, s + f)] :
      s \in RecSuccesses, f \in RecFailures,
      t1 \in RecTimes, t2 \in RecTimes }

RecommendInit ==
  /\ results = <<>>
  /\ now = 0
  /\ ProbeIdle
  /\ reportOut = NoReport
  /\ LoadIdle
  /\ MonIdle
  /\ RunIdle
  /\ selection = NoCall
  /\ recommendation \in { c \in RecInputs :
                            c.responseTimes[1] <= c.responseTimes[Len(c.responseTimes)] }
  /\ CliIdle

\* this.generateRecommendations(responseTimes, successRate)
Recommend ==
  /\ recommendation.kind = "call"
  /\ recommendation' =
       [kind |-> "done",
        responseTimes |-> recommendation.responseTimes,
        successRate |-> recommendation.successRate,
        out |-> generateRecommendations(recommendation.responseTimes,
                                        recommendation.successRate)]
  /\ UNCHANGED <<results, now, probeVars, reportVars, loadVars, monVars, runVars,
                 selection, cliVars, errOut>>

RecommendNext == Recommend

SpecRecommend == RecommendInit /\ [][RecommendNext]_vars

\* the three ladders, best band first
MeanLadder ==
  << "EXCELLENT: Average response time under 50ms - world-class performance!",
     "GOOD: Average response time under 100ms - great user experience",
     "FAIR: Consider optimizing database queries and caching",
     "NEEDS IMPROVEMENT: Response times over 200ms may impact user experience" >>

P95Ladder ==
  << "95% of requests served under 100ms - consistent performance",
     "95th percentile under 200ms - good consistency",
     "High P95 response time suggests performance bottlenecks" >>

SuccessLadder ==
  << "OUTSTANDING: 99.9%+ success rate - extremely reliable",
     "EXCELLENT: 99%+ success rate - very reliable",
     "GOOD: 95%+ success rate - monitor error patterns",
     "INVESTIGATE: Success rate below 95% - check error logs" >>

\* the band of a mean sum / n, of a p95 and of a rate ok / total
MeanBand(sum, n) ==
  IF sum < 50 * n THEN 1 ELSE IF sum < 100 * n THEN 2 ELSE IF sum < 200 * n THEN 3 ELSE 4

P95Band(p95) == IF p95 < 100 THEN 1 ELSE IF p95 < 200 THEN 2 ELSE 3

SuccessBand(rate) ==
  IF 1000 * rate.num >= 999 * rate.den THEN 1
  ELSE IF 100 * rate.num >= 99 * rate.den THEN 2
  ELSE IF 100 * rate.num >= 95 * rate.den THEN 3
  ELSE 4

\* the sum of a sequence, from its end
RECURSIVE SumFromEnd(_, _)
SumFromEnd(s, k) == IF k = 0 THEN 0 ELSE s[k] + SumFromEnd(s, k - 1)

\* C16: the recommendations are, in this order, the message of the band of the
\* mean (<50, <100, <200, else), the message of the band of the p95 (<100,
\* <200, else) and the message of the band of the success rate (>= 99.9%,
\* >= 99%, >= 95%, else), followed by the two bonus messages exactly when
\* mean < 100 and success rate > 99%: 3 or 5 entries.
C16_RecommendationLadders ==
  recommendation.kind = "done" =>
    LET times == recommendation.responseTimes
        rate == recommendation.successRate
        out == recommendation.out
        sum == SumFromEnd(times, Len(times))
        p95 == times[FloorRank(Len(times), 95) + 1]
        bonus == sum < 100 * Len(times) /\ 100 * rate.num > 99 * rate.den
    IN /\ Len(out) \in {3, 5}
       /\ out[1] = MeanLadder[MeanBand(sum, Len(times))]
       /\ out[2] = P95Ladder[P95Band(p95)]
       /\ out[3] = SuccessLadder[SuccessBand(rate)]
       /\ Len(out) = 5 <=> bonus
       /\ Len(out) = 5 => (out[4] = BonusMessages[1] /\ out[5] = BonusMessages[2])

\* 99 successes of 100 samples with a mean under 50: the rate is in the 99%
\* band and not above 99%, so no bonus message follows
C16_Witness ==
  /\ recommendation.kind = "done"
  /\ recommendation.successRate = Fraction(99, 100)
  /\ recommendation.out[1] = MeanLadder[1]
  /\ recommendation.out[2] = P95Ladder[1]
  /\ recommendation.out[3] = SuccessLadder[2]
  /\ Len(recommendation.out) = 3

----------------------------------------------------------------------------
(* Command line: main.  The driver main awaits is the driver of the         *)
(* sections above, entered in the step after main has chosen its mode.      *)
(* The default of 100 requests is cut to MaxRequests.                       *)

\* "help" stands for every other testType: the default branch of the switch
CliModes == {"cambridge", "quick", "load", "monitor", "help"}

DefaultRequests == MaxRequests

\* parseInt(args[2]) values: a negative count, none or 0 (the default), counts
CliRequestArgs == -1..MaxRequests

\* parseInt(args[2]) || 100
CliRequests(arg) == IF arg = 0 THEN DefaultRequests ELSE arg

WriteError == "writeTextFile failed"
TailError == "customElements is not defined"

\* a catch that ends the process as if nothing had failed
CatchExit_ExitZero(message) == [code |-> 0, err |-> message]

\* main's catch: console.error(..., error.message); Deno.exit(1)
CatchExit(message) == [code |-> 1, err |-> message]

CliInit ==
  /\ results = <<>>
  /\ now = 0
  /\ ProbeIdle
  /\ reportOut = NoReport
  /\ LoadIdle
  /\ MonIdle
  /\ RunIdle
  /\ PureIdle
  /\ CliIdle

\* main up to the switch; an unknown testType prints the usage and main returns
CliStart ==
  /\ cli.pc = "off"
  /\ \E mode \in CliModes :
       cli' = [cli EXCEPT !.pc = IF mode = "help" THEN "returned" ELSE "await",
                          !.mode = mode]
  /\ UNCHANGED <<results, now, probeVars, reportVars, loadVars, monVars, runVars,
                 pureVars, exported, errOut>>

\* await testSuite.runQuickBenchmark(requests): the run's steps
CliQuickStep ==
  /\ cli.pc = "await" /\ cli.mode = "quick"
  /\ \/ \E arg \in CliRequestArgs : StartRunOf(1, "quick", CliRequests(arg))
     \/ RunProbeDone(1)
     \/ RunProbeDoneThrow(1)
     \/ RunWake(1)

\* await testSuite.runCambridgeValidation(): the run's steps
CliCambridgeStep ==
  /\ cli.pc = "await" /\ cli.mode = "cambridge"
  /\ \/ StartRunOf(1, "cambridge", DefaultRequests)
     \/ RunProbeDone(1)
     \/ RunProbeDoneThrow(1)
     \/ RunWake(1)

\* await testSuite.runLoadTest(users, duration): the run's steps
CliLoadStep ==
  /\ cli.pc = "await" /\ cli.mode = "load"
  /\ LoadNext

\* await testSuite.startRealTimeMonitoring(interval): the monitor's steps, the
\* interrupt among them
CliMonitorStep ==
  /\ cli.pc = "await" /\ cli.mode = "monitor"
  /\ MonitorNext

\* the driver main awaits has returned its report, or has thrown
CliDriverOut ==
  IF cli.mode = "load"
  THEN (IF loadPc \in {"returned", "threw"} THEN reportOut ELSE NoReport)
  ELSE IF cli.mode \in {"quick", "cambridge"}
       THEN (IF runs[1].pc \in {"returned", "threw", "failed"} THEN runs[1].out ELSE NoReport)
       ELSE NoReport

\* the driver returned: testSuite.displayReport(report), then exportResults
\* up to its await
CliDisplay ==
  /\ cli.pc = "await"
  /\ CliDriverOut.kind = "report"
  /\ printed' = Append(printed, CliDriverOut)
  /\ cli' = [cli EXCEPT !.pc = "export"]
  /\ UNCHANGED <<results, now, probeVars, reportVars, loadVars, monitor,
                 monitoringResults, exitCode, runVars, pureVars, exported, errOut>>

\* the driver threw: main's catch
CliCaught ==
  /\ cli.pc = "await"
  /\ CliDriverOut.kind = "error"
  /\ errOut' = Append(errOut, CatchExit(CliDriverOut.message).err)
  /\ exitCode' = CatchExit(CliDriverOut.message).code
  /\ cli' = [cli EXCEPT !.pc = "exited"]
  /\ UNCHANGED <<results, now, probeVars, reportVars, loadVars, monitor,
                 monitoringResults, printed, runVars, pureVars, exported>>

\* Deno.writeTextFile resolved: the report is in its file, main returns
CliExported ==
  /\ cli.pc = "export"
  /\ exported' = Append(exported, printed[Len(printed)])
  /\ cli' = [cli EXCEPT !.pc = "returned"]
  /\ UNCHANGED <<results, now, probeVars, reportVars, loadVars, monVars, runVars,
                 pureVars, errOut>>

\* Deno.writeTextFile rejected: main's catch
CliExportFailed ==
  /\ cli.pc = "export"
  /\ errOut' = Append(errOut, CatchExit(WriteError).err)
  /\ exitCode' = CatchExit(WriteError).code
  /\ cli' = [cli EXCEPT !.pc = "exited", !.exportFailed = TRUE]
  /\ UNCHANGED <<results, now, probeVars, reportVars, loadVars, monitor,
                 monitoringResults, printed, runVars, pureVars, exported>>

\* main has returned: the statements of the module after the export run, and
\* the first of them that names customElements throws; the runtime prints the
\* error and the process ends on it
CliModuleTail ==
  /\ cli.pc = "returned"
  /\ errOut' = Append(errOut, TailError)
  /\ exitCode' = 1
  /\ cli' = [cli EXCEPT !.pc = "exited"]
  /\ UNCHANGED <<results, now, probeVars, reportVars, loadVars, monitor,
                 monitoringResults, printed, runVars, pureVars, exported>>

CliNext ==
  \/ CliStart
  \/ CliQuickStep
  \/ CliCambridgeStep
  \/ CliLoadStep
  \/ CliMonitorStep
  \/ CliDisplay
  \/ CliCaught
  \/ CliExported
  \/ CliExportFailed
  \/ CliModuleTail

SpecCli == CliInit /\ [][CliNext]_vars

\* the failure the core has raised, if any: the message of the error
CoreFailure ==
  IF cli.exportFailed THEN WriteError
  ELSE IF CliDriverOut.kind = "error" THEN CliDriverOut.message
  ELSE IF cli.mode = "monitor" /\ monitor.pc = "exited" /\ reportOut.kind = "error"
       THEN reportOut.message
  ELSE ""

\* C17: in every mode, once the core has raised a failure the process never
\* exits with code 0: while it still runs, main's catch is the step to come,
\* and when it has ended its code is not 0 and the failure's message was the
\* last thing printed as an error.
C17_FailureExitsNonZero ==
  CoreFailure # "" =>
    /\ exitCode # 0
    /\ exitCode = -1 => ENABLED CliCaught
    /\ exitCode # -1 => (errOut # <<>> /\ errOut[Len(errOut)] = CoreFailure)

\* a load run whose samples all failed has ended the process with code 1 and
\* the generator's message
C17_Witness ==
  /\ cli.mode = "load"
  /\ exitCode = 1
  /\ Len(results) > 0
  /\ errOut = <<NoSuccessError>>

\* C18: in every mode, when the process has ended after a report was generated
\* and displayed for the run, that report has been exported to a file (unless
\* the write itself failed).
C18_ReportExported ==
  (exitCode # -1 /\ printed # <<>> /\ ~cli.exportFailed) =>
    /\ exported # <<>>
    /\ exported[Len(exported)] = printed[Len(printed)]

----------------------------------------------------------------------------
(* The progress line of the fixed-count drivers: one run, of either kind,   *)
(* of 1 to MaxProgressRequests requests, every probe answered with 200.     *)

ProgressOutcome == [fetchOk |-> TRUE, status |-> 200, textOk |-> TRUE, length |-> 7]

ProgressInit ==
  /\ results = <<>>
  /\ now = 0
  /\ ProbeIdle
  /\ reportOut = NoReport
  /\ LoadIdle
  /\ MonIdle
  /\ RunIdle
  /\ PureIdle
  /\ CliIdle

ProgressNext ==
  \/ \E kind \in RunKinds, requests \in 1..MaxProgressRequests :
       StartRunOf(1, kind, requests)
  \/ RunProbeDoneWith(1, ProgressOutcome)
  \/ RunProbeDoneThrow(1)
  \/ RunWake(1)

SpecProgress == ProgressInit /\ [][ProgressNext]_vars

\* floor(n / 10) and ceil(n / 10), by their defining inequalities
FloorTenth(n) == CHOOSE q \in 0..n : 10 * q <= n /\ n < 10 * (q + 1)
CeilTenth(n) == CHOOSE q \in 0..n : 10 * (q - 1) < n /\ n <= 10 * q

\* the multiples of step among 1..k, ascending
MultiplesUpTo(step, k) == [j \in 1..(k \div step) |-> j * step]

\* a run that is under way or has ended, none of whose progress writes threw
ProgressRuns == { r \in RunIds : runs[r].pc \notin {"new", "failed"} /\ runs[r].requests >= 1 }

\* C21 as stated: the progress lines of a run of N requests are those of the
\* iterations whose 1-based index is a multiple of ceil(N / 10).
C21_ProgressEveryCeil ==
  \A r \in ProgressRuns :
    runs[r].progress = MultiplesUpTo(CeilTenth(runs[r].requests), Len(runs[r].probed))

\* C21 as amended: the progress lines of a run of N requests are those of the
\* iterations whose 1-based index is a multiple of max(1, floor(N / 10)), and
\* of no other iteration; a run that a progress write ended by throwing
\* stopped at such an iteration, with every earlier line written.
C21_ProgressEveryFloor ==
  \A r \in RunIds :
    runs[r].pc # "new" /\ runs[r].requests >= 1 =>
      LET q == FloorTenth(runs[r].requests)
          step == IF q >= 1 THEN q ELSE 1
          done == Len(runs[r].probed)
      IN IF runs[r].pc = "failed"
         THEN /\ done % step = 0
              /\ runs[r].progress = MultiplesUpTo(step, done - 1)
         ELSE runs[r].progress = MultiplesUpTo(step, done)

\* a run of more than 20 requests, not a multiple of 10, has ended: its lines
\* came every second iteration, where ceil(N / 10) is 3
C21_Witness ==
  \E r \in RunIds :
    /\ runs[r].pc = "returned"
    /\ runs[r].requests > 20
    /\ CeilTenth(runs[r].requests) = 3
    /\ Len(runs[r].progress) >= 10
    /\ runs[r].progress[1] = 2

----------------------------------------------------------------------------
(* The load driver under the scheduling the runtime gives it: the clock     *)
(* advances, every dispatched probe settles, every delay timer fires, and   *)
(* the continuation of a settled Promise.all runs.  Whether runLoadTest is  *)
(* called at all is left open.                                              *)

\* the await user w is suspended at settles: its probe returns, or its delay
\* timer fires
AwaitSettles(w) ==
  /\ w \in UserIds
  /\ ProbeDoneSleep(w) \/ ProbeDoneCatch(w) \/ Wake(w)

\* what enables FinishLoadTest; the step itself ends it
PromiseAllSettled == loadPc = "running" /\ AllUsersDone

\* weak fairness of the clock, of every user's pending await, and of
\* FinishLoadTest, the last written through its enabling condition
LoadFairness ==
  /\ WF_vars(Tick)
  /\ \A w \in 0..(MaxUsers - 1) : WF_vars(AwaitSettles(w))
  /\ []<>~PromiseAllSettled

SpecLoadFair == LoadInit /\ [][LoadNext]_vars /\ LoadFairness

LoadCompleted == loadPc \in {"returned", "threw"}

\* C22: a load test that has been started completes: the clock passes the
\* deadline, every simulateUser then leaves its loop, and runLoadTest returns a
\* report or throws generateReport's error, with nothing cancelling it from
\* outside, for every concurrentUsers >= 0 and every finite duration.
C22_LoadTestCompletes ==
  (loadPc = "running") ~> (now >= endTime /\ AllUsersDone /\ LoadCompleted)

\* a load test of two users and a deadline ahead completed after the deadline,
\* both users having probed
C22_Witness ==
  /\ LoadCompleted
  /\ endTime > 0
  /\ now >= endTime
  /\ Cardinality(UserIds) = 2
  /\ \A w \in UserIds : users[w].pc = "done" /\ users[w].requestCount >= 1

====
